---- MODULE Spec2Model ----
(***************************************************************************)
(* The interactive shell of rocksdb-cli: the REPL loop of rustyrepl        *)
(* (Repl::process_command), the clap grammar of DBCommand, and the command *)
(* processor CliProcessor with its DBHelper over a column-family store.    *)
(*                                                                         *)
(* Text (lines, words, keys, values, partition names) is a sequence of     *)
(* one-character strings, so that tokenizing, lower-casing and parsing are *)
(* computed rather than assumed.                                           *)
(***************************************************************************)
EXTENDS Integers, Sequences, FiniteSets, TLC

VARIABLES
    pc,            \* position of Repl::process_command: "loop" or "returned"
    result,        \* what Repl::process_command returned: "none", "Ok", "Err"
    current_cf,    \* DBHelper.current_cf
    cf_list,       \* DBHelper.cf_list
    db,            \* DBHelper.db: partition name -> (key -> value)
    readonly,      \* whether the store was opened read-only
    history,       \* the editor's in-memory history (rustyline DefaultHistory)
    history_arg,   \* the history file given to Repl::new: its name, what the
                   \* file system holds at it, and the home directory
    history_path,  \* Repl.history: <<>> (None) or <<path>> (Some)
    history_file,  \* the lines saved in the history file on disk
    files,         \* the output files written: path -> lines
    prompts,       \* number of readline calls made so far
    calls,         \* number of CliProcessor::process_command calls made so far
    last,          \* what the last loop iteration read and did with it
    out            \* what the last loop iteration printed to stdout

vars == <<pc, result, current_cf, cf_list, db, readonly, history, history_arg,
          history_path, history_file, files, prompts, calls, last, out>>

----------------------------------------------------------------------------
(* Bounds of the model *)

\* the number of loop iterations (lines read) explored
MaxLines == 2

----------------------------------------------------------------------------
(* Characters *)

UpperCase == <<"A","B","C","D","E","F","G","H","I","J","K","L","M",
               "N","O","P","Q","R","S","T","U","V","W","X","Y","Z">>
LowerCase == <<"a","b","c","d","e","f","g","h","i","j","k","l","m",
               "n","o","p","q","r","s","t","u","v","w","x","y","z">>

\* char::to_lowercase on the ASCII letters
LowerChar(c) ==
    IF \E i \in 1..Len(UpperCase) : UpperCase[i] = c
    THEN LowerCase[CHOOSE i \in 1..Len(UpperCase) : UpperCase[i] = c]
    ELSE c

\* str::to_lowercase
to_lowercase(s) == [i \in 1..Len(s) |-> LowerChar(s[i])]

\* the backquote character, which a TLA+ string cannot hold
Backquote == "<backquote>"

IsWhitespace(c) == c \in {" ", "\t", "\n"}

----------------------------------------------------------------------------
(* shell_words::split, the tokenizer called on every line read *)

RECURSIVE SplitFrom(_, _, _, _, _)
SplitFrom(line, i, state, word, words) ==
    IF i > Len(line)
    THEN CASE state \in {"Delimiter", "Comment"} -> [ok |-> TRUE, words |-> words]
           [] state \in {"Backslash", "UnquotedBackslash"} ->
                [ok |-> TRUE, words |-> Append(words, Append(word, "\\"))]
           [] state = "Unquoted" -> [ok |-> TRUE, words |-> Append(words, word)]
           [] OTHER -> [ok |-> FALSE, words |-> <<>>]   \* unterminated quote
    ELSE LET c == line[i] IN
         CASE state = "Delimiter" ->
                IF c = "'" THEN SplitFrom(line, i + 1, "SingleQuoted", word, words)
                ELSE IF c = "\"" THEN SplitFrom(line, i + 1, "DoubleQuoted", word, words)
                ELSE IF c = "\\" THEN SplitFrom(line, i + 1, "Backslash", word, words)
                ELSE IF IsWhitespace(c) THEN SplitFrom(line, i + 1, "Delimiter", word, words)
                ELSE IF c = "#" THEN SplitFrom(line, i + 1, "Comment", word, words)
                ELSE SplitFrom(line, i + 1, "Unquoted", Append(word, c), words)
           [] state = "Backslash" ->
                IF c = "\n" THEN SplitFrom(line, i + 1, "Delimiter", word, words)
                ELSE SplitFrom(line, i + 1, "Unquoted", Append(word, c), words)
           [] state = "Unquoted" ->
                IF c = "'" THEN SplitFrom(line, i + 1, "SingleQuoted", word, words)
                ELSE IF c = "\"" THEN SplitFrom(line, i + 1, "DoubleQuoted", word, words)
                ELSE IF c = "\\" THEN SplitFrom(line, i + 1, "UnquotedBackslash", word, words)
                ELSE IF IsWhitespace(c)
                     THEN SplitFrom(line, i + 1, "Delimiter", <<>>, Append(words, word))
                ELSE SplitFrom(line, i + 1, "Unquoted", Append(word, c), words)
           [] state = "UnquotedBackslash" ->
                IF c = "\n" THEN SplitFrom(line, i + 1, "Unquoted", word, words)
                ELSE SplitFrom(line, i + 1, "Unquoted", Append(word, c), words)
           [] state = "SingleQuoted" ->
                IF c = "'" THEN SplitFrom(line, i + 1, "Unquoted", word, words)
                ELSE SplitFrom(line, i + 1, "SingleQuoted", Append(word, c), words)
           [] state = "DoubleQuoted" ->
                IF c = "\"" THEN SplitFrom(line, i + 1, "Unquoted", word, words)
                ELSE IF c = "\\" THEN SplitFrom(line, i + 1, "DoubleQuotedBackslash", word, words)
                ELSE SplitFrom(line, i + 1, "DoubleQuoted", Append(word, c), words)
           [] state = "DoubleQuotedBackslash" ->
                IF c = "\n" THEN SplitFrom(line, i + 1, "DoubleQuoted", word, words)
                ELSE IF c \in {"$", Backquote, "\"", "\\"}
                     THEN SplitFrom(line, i + 1, "DoubleQuoted", Append(word, c), words)
                ELSE SplitFrom(line, i + 1, "DoubleQuoted",
                               Append(Append(word, "\\"), c), words)
           [] OTHER ->  \* Comment
                IF c = "\n" THEN SplitFrom(line, i + 1, "Delimiter", word, words)
                ELSE SplitFrom(line, i + 1, "Comment", word, words)

\* shell_words::split(&line): Ok(words) or Err(ParseError)
split(line) == SplitFrom(line, 1, "Delimiter", <<>>, <<>>)

----------------------------------------------------------------------------
(* The command grammar: clap's derive of InterCli / DBCommand *)

\* the subcommand names clap derives from the variants of DBCommand (kebab
\* case), in declaration order, each with its variant
Subcommands == <<
    [name |-> <<"l","i","s","t">>, variant |-> "List"],
    [name |-> <<"i","n","f","o">>, variant |-> "Info"],
    [name |-> <<"u","s","e">>, variant |-> "Use"],
    [name |-> <<"g","e","t">>, variant |-> "Get"],
    [name |-> <<"k","e","y","s">>, variant |-> "Keys"],
    [name |-> <<"c","o","n","t","a","i","n","s","-","k","e","y">>, variant |-> "ContainsKey"],
    [name |-> <<"s","e","a","r","c","h","-","v","a","l","u","e">>, variant |-> "SearchValue"],
    [name |-> <<"s","e","a","r","c","h","-","k","e","y">>, variant |-> "SearchKey"],
    [name |-> <<"p","u","t">>, variant |-> "Put"],
    [name |-> <<"d","e","l","e","t","e">>, variant |-> "Delete"],
    [name |-> <<"s","c","a","n">>, variant |-> "Scan"],
    [name |-> <<"p","r","e","f","i","x">>, variant |-> "Prefix"],
    [name |-> <<"e","x","i","t">>, variant |-> "Exit"] >>

\* the subcommand clap adds by itself
HelpName == <<"h","e","l","p">>

IsSubcommand(w) == \E i \in 1..Len(Subcommands) : Subcommands[i].name = w
VariantOf(w) == Subcommands[CHOOSE i \in 1..Len(Subcommands) : Subcommands[i].name = w].variant

\* the positional fields of a variant, in order (all of them required)
Positionals(variant) ==
    CASE variant = "Use" -> <<"name">>
      [] variant = "Get" -> <<"key">>
      [] variant = "Put" -> <<"key", "value">>
      [] variant = "Delete" -> <<"key">>
      [] OTHER -> <<>>

\* the #[arg(short, long)] fields of a variant: long name, short letter, the
\* field, what it takes ("flag", "string" or "usize") and whether it is required
Opt(long, short, field, takes, required) ==
    [long |-> long, short |-> short, field |-> field, takes |-> takes, required |-> required]

OptLimit == Opt(<<"l","i","m","i","t">>, "l", "limit", "usize", FALSE)
OptAll == Opt(<<"a","l","l">>, "a", "all", "flag", FALSE)
OptOutput == Opt(<<"o","u","t","p","u","t">>, "o", "output", "string", FALSE)
OptHighlight ==
    Opt(<<"w","i","t","h","-","h","i","g","h","l","i","g","h","t">>, "w", "with_highlight", "flag", FALSE)

Options(variant) ==
    CASE variant = "Get" -> {Opt(<<"j","s","o","n">>, "j", "json", "flag", FALSE)}
      [] variant = "Keys" -> {OptLimit}
      [] variant = "ContainsKey" -> {Opt(<<"k","e","y">>, "k", "key", "string", TRUE)}
      [] variant = "SearchValue" ->
            {Opt(<<"v","a","l","u","e">>, "v", "value", "string", TRUE),
             OptHighlight, OptLimit, OptAll, OptOutput}
      [] variant = "SearchKey" ->
            {Opt(<<"k","e","y">>, "k", "key", "string", TRUE),
             OptHighlight, OptLimit, OptAll, OptOutput}
      [] variant = "Scan" ->
            {Opt(<<"s","t","a","r","t">>, "s", "start", "string", FALSE),
             Opt(<<"e","n","d">>, "e", "end", "string", FALSE),
             Opt(<<"r","e","v","e","r","s","e">>, "r", "reverse", "flag", FALSE),
             OptLimit, OptAll, OptOutput}
      [] variant = "Prefix" ->
            {Opt(<<"p","r","e","f","i","x">>, "p", "prefix", "string", TRUE),
             OptHighlight, OptLimit, OptAll, OptOutput}
      [] OTHER -> {}

\* default_value_t of `limit`
DefaultLimit(variant) ==
    CASE variant = "Keys" -> 10000
      [] variant \in {"SearchValue", "SearchKey"} -> 1000
      [] variant \in {"Scan", "Prefix"} -> 100
      [] OTHER -> 0

\* a DBCommand value: the variant and its fields (a field the variant does
\* not have keeps its empty default; an Option is <<>> or <<x>>)
DefaultCommand(variant) ==
    [variant |-> variant, name |-> <<>>, key |-> <<>>, value |-> <<>>,
     prefix |-> <<>>, start |-> <<>>, end |-> <<>>, output |-> <<>>,
     json |-> FALSE, reverse |-> FALSE, with_highlight |-> FALSE, all |-> FALSE,
     limit |-> DefaultLimit(variant)]

Digits == <<"0","1","2","3","4","5","6","7","8","9">>
IsDigit(c) == \E i \in 1..Len(Digits) : Digits[i] = c
DigitValue(c) == (CHOOSE i \in 1..Len(Digits) : Digits[i] = c) - 1

\* str::parse::<usize>: decimal digits after an optional "+"
IsUsize(w) ==
    LET d == IF Len(w) > 0 /\ w[1] = "+" THEN Tail(w) ELSE w
    IN Len(d) > 0 /\ \A i \in 1..Len(d) : IsDigit(d[i])

RECURSIVE DecimalValue(_)
DecimalValue(d) ==
    IF Len(d) = 0 THEN 0
    ELSE 10 * DecimalValue(SubSeq(d, 1, Len(d) - 1)) + DigitValue(d[Len(d)])

ParseUsize(w) == DecimalValue(IF w[1] = "+" THEN Tail(w) ELSE w)

\* how a parsed value is stored into its field
SetField(cmd, opt, w) ==
    CASE opt.takes = "flag" -> [cmd EXCEPT ![opt.field] = TRUE]
      [] opt.takes = "usize" -> [cmd EXCEPT ![opt.field] = ParseUsize(w)]
      [] opt.field \in {"start", "end", "output"} -> [cmd EXCEPT ![opt.field] = <<w>>]
      [] OTHER -> [cmd EXCEPT ![opt.field] = w]

ParseOk(cmd) == [kind |-> "Ok", cli |-> cmd]
ParseErr(kind) == [kind |-> kind, cli |-> DefaultCommand("None")]

LooksLikeFlag(w) == Len(w) >= 2 /\ w[1] = "-"

\* the option of the variant an argument word names, as a set (empty: none)
OptionNamed(variant, w) ==
    {o \in Options(variant) :
        \/ Len(w) > 2 /\ w[2] = "-" /\ SubSeq(w, 3, Len(w)) = o.long
        \/ Len(w) = 2 /\ w[2] = o.short}

\* clap's parse of the words after the subcommand name.  Explored forms:
\* positionals, `--long [value]`, `-s [value]`, `--help`/`-h`.
RECURSIVE ParseArgs(_, _, _, _, _, _)
ParseArgs(variant, args, i, cmd, seen, npos) ==
    IF i > Len(args)
    THEN IF /\ npos = Len(Positionals(variant))
            /\ \A o \in Options(variant) : o.required => o.field \in seen
         THEN ParseOk(cmd)
         ELSE ParseErr("MissingRequiredArgument")
    ELSE LET w == args[i] IN
         IF w \in {<<"-","-","h","e","l","p">>, <<"-","h">>} THEN ParseErr("DisplayHelp")
         ELSE IF LooksLikeFlag(w)
         THEN LET os == OptionNamed(variant, w) IN
              IF os = {} THEN ParseErr("UnknownArgument")
              ELSE LET o == CHOOSE x \in os : TRUE IN
                   IF o.field \in seen THEN ParseErr("ArgumentConflict")
                   ELSE IF o.takes = "flag"
                   THEN ParseArgs(variant, args, i + 1, SetField(cmd, o, <<>>),
                                  seen \cup {o.field}, npos)
                   ELSE IF i + 1 > Len(args) \/ LooksLikeFlag(args[i + 1])
                   THEN ParseErr("InvalidValue")
                   ELSE IF o.takes = "usize" /\ ~IsUsize(args[i + 1])
                   THEN ParseErr("ValueValidation")
                   ELSE ParseArgs(variant, args, i + 2, SetField(cmd, o, args[i + 1]),
                                  seen \cup {o.field}, npos)
         ELSE IF npos < Len(Positionals(variant))
         THEN ParseArgs(variant, args, i + 1,
                        [cmd EXCEPT ![Positionals(variant)[npos + 1]] = w], seen, npos + 1)
         ELSE ParseErr("UnknownArgument")

\* try_parse_from with an unknown subcommand taken for the first one
try_parse_from_lenient(cmd_parts) ==
    IF Len(cmd_parts) >= 2 /\ IsSubcommand(cmd_parts[2])
    THEN ParseArgs(VariantOf(cmd_parts[2]), SubSeq(cmd_parts, 3, Len(cmd_parts)), 1,
                   DefaultCommand(VariantOf(cmd_parts[2])), {}, 0)
    ELSE ParseOk(DefaultCommand("List"))

\* C::try_parse_from(cmd_parts) for C = InterCli: cmd_parts[1] is the program
\* name, cmd_parts[2] the subcommand, matched exactly as written
try_parse_from(cmd_parts) ==
    IF Len(cmd_parts) < 2 THEN ParseErr("DisplayHelpOnMissingArgumentOrSubcommand")
    ELSE LET sub == cmd_parts[2]
             args == SubSeq(cmd_parts, 3, Len(cmd_parts))
         IN IF sub \in {<<"-","-","h","e","l","p">>, <<"-","h">>} THEN ParseErr("DisplayHelp")
            ELSE IF sub \in {<<"-","-","v","e","r","s","i","o","n">>, <<"-","V">>}
            THEN ParseErr("DisplayVersion")
            ELSE IF LooksLikeFlag(sub) THEN ParseErr("UnknownArgument")
            ELSE IF sub = HelpName
            THEN IF Len(args) = 0 \/ IsSubcommand(args[1]) \/ args[1] = HelpName
                 THEN ParseErr("DisplayHelp")
                 ELSE ParseErr("InvalidSubcommand")
            ELSE IF IsSubcommand(sub)
            THEN ParseArgs(VariantOf(sub), args, 1, DefaultCommand(VariantOf(sub)), {}, 0)
            ELSE ParseErr("InvalidSubcommand")

----------------------------------------------------------------------------
(* Bytes, their order, and their display *)

\* a byte that is no valid UTF-8, and what from_utf8_lossy shows for it
InvalidByte == "<0xFF>"
ReplacementChar == "<U+FFFD>"
\* the backspace character, which a TLA+ string cannot hold
Backspace == "<0x08>"

\* the value of a byte of the model (ASCII)
IndexIn(seq, c) == CHOOSE i \in 1..Len(seq) : seq[i] = c
Code(c) ==
    CASE IsDigit(c) -> 47 + IndexIn(Digits, c)
      [] \E i \in 1..Len(UpperCase) : UpperCase[i] = c -> 64 + IndexIn(UpperCase, c)
      [] \E i \in 1..Len(LowerCase) : LowerCase[i] = c -> 96 + IndexIn(LowerCase, c)
      [] c = Backspace -> 8
      [] c = "\t" -> 9
      [] c = "\n" -> 10
      [] c = "\f" -> 12
      [] c = "\r" -> 13
      [] c = " " -> 32
      [] c = "\"" -> 34
      [] c = "#" -> 35
      [] c = "$" -> 36
      [] c = "'" -> 39
      [] c = "+" -> 43
      [] c = "-" -> 45
      [] c = "/" -> 47
      [] c = ":" -> 58
      [] c = "[" -> 91
      [] c = "\\" -> 92
      [] c = "]" -> 93
      [] c = "_" -> 95
      [] c = Backquote -> 96
      [] c = InvalidByte -> 255

HexDigits == <<"0","1","2","3","4","5","6","7","8","9","a","b","c","d","e","f">>

\* hex::encode
RECURSIVE hex_encode(_)
hex_encode(bytes) ==
    IF Len(bytes) = 0 THEN <<>>
    ELSE <<HexDigits[(Code(bytes[1]) \div 16) + 1], HexDigits[(Code(bytes[1]) % 16) + 1]>>
         \o hex_encode(Tail(bytes))

\* a < b in the store's (bytewise lexicographic) key order
RECURSIVE BytesLess(_, _)
BytesLess(a, b) ==
    IF Len(b) = 0 THEN FALSE
    ELSE IF Len(a) = 0 THEN TRUE
    ELSE IF a[1] = b[1] THEN BytesLess(Tail(a), Tail(b))
    ELSE Code(a[1]) < Code(b[1])

BytesLeq(a, b) == a = b \/ BytesLess(a, b)

\* the keys of a set in ascending order
RECURSIVE Ascending(_)
Ascending(ks) ==
    IF ks = {} THEN <<>>
    ELSE LET m == CHOOSE k \in ks : \A o \in ks : BytesLeq(k, o)
         IN <<m>> \o Ascending(ks \ {m})

Reverse(seq) == [i \in 1..Len(seq) |-> seq[Len(seq) + 1 - i]]

IsUtf8(bytes) == \A i \in 1..Len(bytes) : bytes[i] # InvalidByte

\* String::from_utf8_lossy
from_utf8_lossy(bytes) ==
    [i \in 1..Len(bytes) |-> IF bytes[i] = InvalidByte THEN ReplacementChar ELSE bytes[i]]

\* unescaper::unescape: Ok(text) or Err.  Explored escapes: \b \f \n \r \t
\* \' \" \; any other character after a backslash, and a backslash at the
\* end, is an error here (the \u, \x and octal forms are not explored).
RECURSIVE UnescapeFrom(_, _, _)
UnescapeFrom(s, i, acc) ==
    IF i > Len(s) THEN [ok |-> TRUE, text |-> acc]
    ELSE IF s[i] # "\\" THEN UnescapeFrom(s, i + 1, Append(acc, s[i]))
    ELSE IF i = Len(s) THEN [ok |-> FALSE, text |-> <<>>]
    ELSE LET c == s[i + 1] IN
         CASE c = "b" -> UnescapeFrom(s, i + 2, Append(acc, Backspace))
           [] c = "f" -> UnescapeFrom(s, i + 2, Append(acc, "\f"))
           [] c = "n" -> UnescapeFrom(s, i + 2, Append(acc, "\n"))
           [] c = "r" -> UnescapeFrom(s, i + 2, Append(acc, "\r"))
           [] c = "t" -> UnescapeFrom(s, i + 2, Append(acc, "\t"))
           [] c \in {"'", "\"", "\\"} -> UnescapeFrom(s, i + 2, Append(acc, c))
           [] OTHER -> [ok |-> FALSE, text |-> <<>>]

unescape(s) == UnescapeFrom(s, 1, <<>>)

\* serde_json::from_str::<String>: the text must be one JSON string literal
RECURSIVE JsonStringFrom(_, _, _)
JsonStringFrom(s, i, acc) ==
    IF i > Len(s) THEN [ok |-> FALSE, text |-> <<>>]
    ELSE IF s[i] = "\"" THEN [ok |-> i = Len(s), text |-> acc]
    ELSE IF s[i] \in {Backspace, "\t", "\n", "\f", "\r"} THEN [ok |-> FALSE, text |-> <<>>]
    ELSE IF s[i] # "\\" THEN JsonStringFrom(s, i + 1, Append(acc, s[i]))
    ELSE IF i = Len(s) THEN [ok |-> FALSE, text |-> <<>>]
    ELSE LET c == s[i + 1] IN
         CASE c = "b" -> JsonStringFrom(s, i + 2, Append(acc, Backspace))
           [] c = "f" -> JsonStringFrom(s, i + 2, Append(acc, "\f"))
           [] c = "n" -> JsonStringFrom(s, i + 2, Append(acc, "\n"))
           [] c = "r" -> JsonStringFrom(s, i + 2, Append(acc, "\r"))
           [] c = "t" -> JsonStringFrom(s, i + 2, Append(acc, "\t"))
           [] c \in {"\"", "\\", "/"} -> JsonStringFrom(s, i + 2, Append(acc, c))
           [] OTHER -> [ok |-> FALSE, text |-> <<>>]

from_json_string(s) ==
    IF Len(s) >= 2 /\ s[1] = "\"" THEN JsonStringFrom(s, 2, <<>>)
    ELSE [ok |-> FALSE, text |-> <<>>]

----------------------------------------------------------------------------
(* Output: what is printed is a sequence of records *)

\* one printed item: a message, or a table with its rows (<<key, value>>)
Msg(text, key) == [text |-> text, key |-> key, rows |-> <<>>]
Table(rows) == [text |-> "table", key |-> <<>>, rows |-> rows]

\* display.rs print_key_value: a one-row table, the value unescaped when it
\* can be
print_key_value(key, value) ==
    LET shown == from_utf8_lossy(value)
        u == unescape(shown)
    IN <<Table(<<  <<from_utf8_lossy(key), IF u.ok THEN u.text ELSE shown>>  >>)>>

----------------------------------------------------------------------------
(* utility.rs *)

\* what `colored` puts around a bright-magenta text
HighlightOn == "<ESC[95m>"
HighlightOff == "<ESC[0m>"

OccursAt(pattern, text, i) ==
    /\ i + Len(pattern) - 1 <= Len(text)
    /\ SubSeq(text, i, i + Len(pattern) - 1) = pattern

\* the loop of highlight_pattern over text.match_indices(pattern)
RECURSIVE HighlightFrom(_, _, _, _)
HighlightFrom(pattern, text, i, acc) ==
    IF i > Len(text) THEN acc
    ELSE IF OccursAt(pattern, text, i)
    THEN HighlightFrom(pattern, text, i + Len(pattern),
                       acc \o <<HighlightOn>> \o pattern \o <<HighlightOff>>)
    ELSE HighlightFrom(pattern, text, i + 1, Append(acc, text[i]))

\* highlight_pattern without the text after the last match (utility.rs 27)
highlight_pattern_no_tail(pattern, candidates) ==
    IF Len(pattern) = 0 THEN candidates
    ELSE IF ~IsUtf8(candidates) THEN candidates
    ELSE LET o == HighlightFrom(pattern, candidates, 1, <<>>)
             offs == {i \in 1..Len(o) : o[i] = HighlightOff}
         IN SubSeq(o, 1, IF offs = {} THEN 0 ELSE CHOOSE i \in offs : \A j \in offs : j <= i)

highlight_pattern(pattern, candidates) ==
    IF Len(pattern) = 0 THEN candidates
    ELSE IF ~IsUtf8(candidates) THEN candidates
    ELSE HighlightFrom(pattern, candidates, 1, <<>>)

----------------------------------------------------------------------------
(* db.rs: DBHelper over one partition `part`, a function key -> value.     *)
(* `fault` says that the store fails the operation (an I/O error).         *)

\* the fixed prefix length of the store's prefix extractor
PrefixLen == 4

\* the pairs a forward iterator yields: ascending key order; a failing
\* store yields one Err and no pair, and Err items are dropped by filter_map
Items(part, fault) ==
    IF fault THEN <<>>
    ELSE LET ks == Ascending(DOMAIN part) IN [i \in 1..Len(ks) |-> <<ks[i], part[ks[i]]>>]

\* a lazy result: the pairs it yields, and whether pulling the first pair
\* out of it panics
Lazy(items, panics) == [items |-> items, panics |-> panics]

\* DBHelper::get with the None arm lost: an absent key is read as an error
get_absent_is_error(part, key, as_json, fault) ==
    IF fault \/ key \notin DOMAIN part THEN [ok |-> FALSE, out |-> <<>>]
    ELSE IF as_json
    THEN LET value_str == from_utf8_lossy(part[key])
             j == from_json_string(value_str)
         IN [ok |-> TRUE,
             out |-> IF j.ok THEN print_key_value(key, j.text)
                     ELSE <<Msg("raw", value_str)>>]
    ELSE [ok |-> TRUE, out |-> print_key_value(key, part[key])]

\* DBHelper::get
get(part, key, as_json, fault) ==
    IF fault THEN [ok |-> FALSE, out |-> <<>>]
    ELSE IF key \notin DOMAIN part THEN [ok |-> TRUE, out |-> <<Msg("Key not found", <<>>)>>]
    ELSE IF as_json
    THEN LET value_str == from_utf8_lossy(part[key])
             j == from_json_string(value_str)
         IN [ok |-> TRUE,
             out |-> IF j.ok THEN print_key_value(key, j.text)
                     ELSE <<Msg("raw", value_str)>>]
    ELSE [ok |-> TRUE, out |-> print_key_value(key, part[key])]

\* DBHelper::get_keys
get_keys(part, limit, fault) ==
    LET items == Items(part, fault)
        n == IF Len(items) = 0 THEN 0
             ELSE IF limit = 0 THEN 1
             ELSE IF limit < Len(items) THEN limit ELSE Len(items)
    IN [i \in 1..n |-> from_utf8_lossy(items[i][1])]

\* what DB::put_cf / DB::delete_cf do to the partition: Ok or Err
StoreWritable(ro, fault) == ~ro /\ ~fault

\* DBHelper::put
put(part, key, value, ro, fault) ==
    IF StoreWritable(ro, fault)
    THEN [ok |-> TRUE, part |-> [k \in DOMAIN part \cup {key} |->
                                    IF k = key THEN value ELSE part[k]],
          out |-> <<Msg("Successfully put", key)>>]
    ELSE [ok |-> FALSE, part |-> part, out |-> <<>>]

\* DBHelper::delete
delete(part, key, ro, fault) ==
    IF StoreWritable(ro, fault)
    THEN [ok |-> TRUE, part |-> [k \in DOMAIN part \ {key} |-> part[k]],
          out |-> <<Msg("Key deleted successfully", <<>>)>>]
    ELSE [ok |-> TRUE, part |-> part, out |-> <<Msg("Key not found", <<>>)>>]

\* DBHelper::contains_stringkey
contains_stringkey(part, key, fault) == ~fault /\ key \in DOMAIN part

\* DBHelper::prefix: the store's prefix iterator seeks to `prefix` and, when
\* `prefix` is in the domain of the fixed-length extractor, stops at the
\* first key whose extracted prefix differs
RECURSIVE SamePrefixRun(_, _)
SamePrefixRun(items, head) ==
    IF Len(items) = 0 THEN <<>>
    ELSE IF Len(items[1][1]) >= PrefixLen /\ SubSeq(items[1][1], 1, PrefixLen) = head
    THEN <<items[1]>> \o SamePrefixRun(Tail(items), head)
    ELSE <<>>

prefix(part, prefix_, highlight_matched, fault) ==
    LET from == SelectSeq(Items(part, fault), LAMBDA kv : BytesLeq(prefix_, kv[1]))
        found == IF Len(prefix_) >= PrefixLen
                 THEN SamePrefixRun(from, SubSeq(prefix_, 1, PrefixLen))
                 ELSE from
    IN Lazy([i \in 1..Len(found) |->
                IF highlight_matched
                THEN <<highlight_pattern(prefix_, found[i][1]), found[i][2]>>
                ELSE found[i]],
            FALSE)

\* bytes.windows(pattern.len()).any(|w| w == pattern), for a non-empty pattern
Contains(bytes, pattern) == \E i \in 1..Len(bytes) : OccursAt(pattern, bytes, i)

\* search with the highlight on the side that matched
search_highlights_match(part, pattern, highlight_matched, fault, side) ==
    LET items == Items(part, fault)
        found == IF Len(pattern) = 0 THEN <<>>
                 ELSE SelectSeq(items, LAMBDA kv : Contains(kv[side], pattern))
    IN Lazy([i \in 1..Len(found) |->
                IF highlight_matched
                THEN [found[i] EXCEPT ![side] = highlight_pattern(pattern, found[i][side])]
                ELSE found[i]],
            Len(pattern) = 0 /\ Len(items) > 0)

\* DBHelper::search_key (side = 1) and DBHelper::search_value (side = 2);
\* slice::windows(0) panics as soon as the filter sees a pair
search(part, pattern, highlight_matched, fault, side) ==
    LET items == Items(part, fault)
        found == IF Len(pattern) = 0 THEN <<>>
                 ELSE SelectSeq(items, LAMBDA kv : Contains(kv[side], pattern))
    IN Lazy([i \in 1..Len(found) |->
                IF highlight_matched
                THEN <<found[i][1], highlight_pattern(pattern, found[i][2])>>
                ELSE found[i]],
            Len(pattern) = 0 /\ Len(items) > 0)

search_key(part, pattern, highlight_matched, fault) ==
    search(part, pattern, highlight_matched, fault, 1)

search_value(part, pattern, highlight_matched, fault) ==
    search(part, pattern, highlight_matched, fault, 2)

\* scan with the upper bound taken as inclusive
scan_end_inclusive(part, start, end, reverse, fault) ==
    LET inb == SelectSeq(Items(part, fault),
                   LAMBDA kv : /\ (Len(start) = 1 => BytesLeq(start[1], kv[1]))
                               /\ (Len(end) = 1 => BytesLeq(kv[1], end[1])))
    IN Lazy(IF reverse THEN Reverse(inb) ELSE inb, FALSE)

\* DBHelper::scan: start and end are Options (<<>> or <<bound>>)
scan(part, start, end, reverse, fault) ==
    LET inb == SelectSeq(Items(part, fault),
                   LAMBDA kv : /\ (Len(start) = 1 => BytesLeq(start[1], kv[1]))
                               /\ (Len(end) = 1 => BytesLess(kv[1], end[1])))
    IN Lazy(IF reverse THEN Reverse(inb) ELSE inb, FALSE)

----------------------------------------------------------------------------
(* display.rs and the result routing of cli_processor.rs *)

\* the number of rows after which print_key_value_list prints its table
BATH_ROWS == 100

\* the row print_key_value_list adds for one pair
ListRow(kv) ==
    <<from_utf8_lossy(kv[1]),
      IF IsUtf8(kv[2])
      THEN (IF unescape(kv[2]).ok THEN unescape(kv[2]).text ELSE kv[2])
      ELSE <<"[","B","I","N","A","R","Y","]"," ">> \o hex_encode(kv[2])>>

\* print_key_value_list without table.clear_rows() after a flush
print_key_value_list_no_clear(entries) ==
    LET rows == [i \in 1..Len(entries) |-> ListRow(entries[i])]
        full == Len(rows) \div BATH_ROWS
        rest == Len(rows) % BATH_ROWS
    IN [b \in 1..full |-> Table(SubSeq(rows, 1, b * BATH_ROWS))]
       \o (IF rest > 0 THEN <<Table(rows)>> ELSE <<>>)

\* display.rs print_key_value_list: the tables it prints, in order
print_key_value_list(entries) ==
    LET rows == [i \in 1..Len(entries) |-> ListRow(entries[i])]
        full == Len(rows) \div BATH_ROWS
        rest == Len(rows) % BATH_ROWS
    IN [b \in 1..full |-> Table(SubSeq(rows, (b - 1) * BATH_ROWS + 1, b * BATH_ROWS))]
       \o (IF rest > 0 THEN <<Table(SubSeq(rows, full * BATH_ROWS + 1, Len(rows)))>>
           ELSE <<>>)

\* utility.rs write_output_to_file: the lines written to the file
FileLines(entries) ==
    [i \in 1..Len(entries) |->
        from_utf8_lossy(entries[i][1]) \o <<":", " ">> \o from_utf8_lossy(entries[i][2])]

Take(items, n) == SubSeq(items, 1, IF n < Len(items) THEN n ELSE Len(items))

\* what one command did: how it ended ("Ok", "Err" or "Panic"), the session
\* state and store after it, the files it wrote, what it printed
Outcome(end, cf, store, fs, printed) ==
    [end |-> end, current_cf |-> cf, db |-> store, files |-> fs, out |-> printed]

WithFile(fs, path, lines) ==
    [f \in DOMAIN fs \cup {path} |-> IF f = path THEN lines ELSE fs[f]]

\* print_or_output_to_file printing the tables also when it writes the file
print_or_output_to_file_both(key_values, all, limit, output, fs, fault) ==
    LET pulled == all \/ limit > 0
        rows == IF all THEN key_values.items ELSE Take(key_values.items, limit)
        panics == key_values.panics /\ pulled
    IN IF Len(output) = 1
       THEN IF fault THEN [end |-> "Err", files |-> fs, out |-> <<>>]
            ELSE IF panics THEN [end |-> "Panic", files |-> WithFile(fs, output[1], <<>>),
                                 out |-> <<>>]
            ELSE [end |-> "Ok", files |-> WithFile(fs, output[1], FileLines(rows)),
                  out |-> print_key_value_list(rows)]
       ELSE IF panics THEN [end |-> "Panic", files |-> fs, out |-> <<>>]
            ELSE [end |-> "Ok", files |-> fs, out |-> print_key_value_list(rows)]

\* print_or_output_to_file taking one row more than the limit
print_or_output_to_file_one_more(key_values, all, limit, output, fs, fault) ==
    LET rows == IF all THEN key_values.items ELSE Take(key_values.items, limit + 1)
        panics == key_values.panics
    IN IF Len(output) = 1
       THEN IF fault THEN [end |-> "Err", files |-> fs, out |-> <<>>]
            ELSE IF panics THEN [end |-> "Panic", files |-> WithFile(fs, output[1], <<>>),
                                 out |-> <<>>]
            ELSE [end |-> "Ok", files |-> WithFile(fs, output[1], FileLines(rows)),
                  out |-> <<>>]
       ELSE IF panics THEN [end |-> "Panic", files |-> fs, out |-> <<>>]
            ELSE [end |-> "Ok", files |-> fs, out |-> print_key_value_list(rows)]

\* CliProcessor::print_or_output_to_file on a lazy result
print_or_output_to_file(key_values, all, limit, output, fs, fault) ==
    LET pulled == all \/ limit > 0
        rows == IF all THEN key_values.items ELSE Take(key_values.items, limit)
        panics == key_values.panics /\ pulled
    IN IF Len(output) = 1
       THEN IF fault THEN [end |-> "Err", files |-> fs, out |-> <<>>]
            ELSE IF panics THEN [end |-> "Panic", files |-> WithFile(fs, output[1], <<>>),
                                 out |-> <<>>]
            ELSE [end |-> "Ok", files |-> WithFile(fs, output[1], FileLines(rows)),
                  out |-> <<>>]
       ELSE IF panics THEN [end |-> "Panic", files |-> fs, out |-> <<>>]
            ELSE [end |-> "Ok", files |-> fs, out |-> print_key_value_list(rows)]

----------------------------------------------------------------------------
(* cli_processor.rs: CliProcessor *)

QuitWord == <<"q","u","i","t">>
ExitWord == <<"e","x","i","t">>

\* is_quit with the "exit" alternative lost
is_quit_only_quit(command) == command = QuitWord

\* CliProcessor::is_quit
is_quit(command) == command \in {QuitWord, ExitWord}

\* str::trim on the characters of the model
RECURSIVE TrimStart(_)
TrimStart(s) == IF Len(s) > 0 /\ IsWhitespace(s[1]) THEN TrimStart(Tail(s)) ELSE s
trim(s) == Reverse(TrimStart(Reverse(TrimStart(s))))

\* get_prompt naming the partition that was active at startup
get_prompt_of_startup(cf) == <<"[", "d","e","f","a","u","l","t", "]", " ", ">", ">">>

\* CliProcessor::get_prompt
get_prompt(cf) == <<"[">> \o trim(cf) \o <<"]", " ", ">", ">">>

Known(list, name) == \E i \in 1..Len(list) : list[i] = name

\* handle_use without the membership test: any name becomes active
handle_use_unchecked(name, cf, list) ==
    [current_cf |-> name, out |-> <<Msg("DB switched to column family", name)>>]

\* handle_use with the assignment to current_cf lost
handle_use_no_switch(name, cf, list) ==
    IF Known(list, name)
    THEN [current_cf |-> cf, out |-> <<Msg("DB switched to column family", name)>>]
    ELSE [current_cf |-> cf, out |-> <<Msg("No column family selected", name)>>]

\* CliProcessor::handle_use: the active partition after it, and its message
handle_use(name, cf, list) ==
    IF Known(list, name)
    THEN [current_cf |-> name, out |-> <<Msg("DB switched to column family", name)>>]
    ELSE [current_cf |-> cf, out |-> <<Msg("No column family selected", name)>>]

\* CliProcessor::handle_delete
handle_delete(part, key, ro, fault) ==
    LET d == delete(part, key, ro, fault)
    IN IF d.ok THEN [ok |-> TRUE, part |-> d.part, out |-> d.out \o <<Msg("Key deleted", key)>>]
       ELSE [ok |-> FALSE, part |-> d.part, out |-> d.out]

\* DBHelper::get_cf_handle giving the handle of a partition other than the
\* one named
get_cf_handle_other(store, name) == store[CHOOSE c \in DOMAIN store : c # name]

\* DBHelper::get_cf_handle of self.current_cf, unwrapped
get_cf_handle(store, name) == store[name]

\* a multi-result command that takes the pairs out of the partition it read
Routed_draining(r, cf, store) ==
    Outcome(r.end, cf, [store EXCEPT ![cf] = [k \in {} |-> <<>>]], r.files, r.out)

\* the routing of a multi-result command, as an outcome
Routed(r, cf, store) == Outcome(r.end, cf, store, r.files, r.out)

\* CliProcessor::process_command
process_command(command, cf, list, store, fs, ro, fault) ==
    LET part == get_cf_handle(store, cf)
        v == command.variant
    IN CASE v = "List" ->
              Outcome("Ok", cf, store, fs,
                      [i \in 1..Len(list) |->
                          Msg(IF list[i] = cf THEN "Active" ELSE "Avaliable", list[i])])
         [] v = "Use" ->
              LET u == handle_use(command.name, cf, list)
              IN Outcome("Ok", u.current_cf, store, fs, u.out)
         [] v = "Delete" ->
              LET d == handle_delete(part, command.key, ro, fault)
              IN Outcome(IF d.ok THEN "Ok" ELSE "Err", cf,
                         [store EXCEPT ![cf] = d.part], fs, d.out)
         [] v = "Get" ->
              LET g == get(part, command.key, command.json, fault)
              IN Outcome(IF g.ok THEN "Ok" ELSE "Err", cf, store, fs, g.out)
         [] v = "Keys" ->
              LET keys == get_keys(part, command.limit, fault)
              IN Outcome("Ok", cf, store, fs,
                         [i \in 1..Len(keys) |-> Msg("key", keys[i])])
         [] v = "Info" ->
              IF fault THEN Outcome("Panic", cf, store, fs, <<>>)
              ELSE Outcome("Ok", cf, store, fs, <<Msg("Current Column Family", cf)>>)
         [] v = "Prefix" ->
              Routed(print_or_output_to_file(
                         prefix(part, command.prefix, command.with_highlight, fault),
                         command.all, command.limit, command.output, fs, fault), cf, store)
         [] v = "Scan" ->
              Routed(print_or_output_to_file(
                         scan(part, command.start, command.end, command.reverse, fault),
                         command.all, command.limit, command.output, fs, fault), cf, store)
         [] v = "ContainsKey" ->
              Outcome("Ok", cf, store, fs,
                      <<Msg(IF contains_stringkey(part, command.key, fault)
                            THEN "Key exists" ELSE "Key doesn't exists", command.key)>>)
         [] v = "SearchKey" ->
              Routed(print_or_output_to_file(
                         search_key(part, command.key, command.with_highlight, fault),
                         command.all, command.limit, command.output, fs, fault), cf, store)
         [] v = "SearchValue" ->
              Routed(print_or_output_to_file(
                         search_value(part, command.value, command.with_highlight, fault),
                         command.all, command.limit, command.output, fs, fault), cf, store)
         [] OTHER -> Outcome("Ok", cf, store, fs, <<Msg("Unknown command", <<>>)>>)

----------------------------------------------------------------------------
(* rustyrepl: Repl *)

DEFAULT_HISTORY_FILE_NAME == <<".","r","e","p","l","_","h","i","s","t","o","r","y">>

\* the history file main.rs passes to Repl::new
HistoryFileArg == <<".","/","h","i","s","t","o","r","y","_","f","i","l","e">>

\* get_history_file_path with the component count of the third arm lost
get_history_file_path_any_count(path, is_file, is_dir, is_absolute, exists, has_ext, ncomp, home) ==
    IF is_file \/ (is_absolute /\ exists /\ has_ext) THEN <<path>>
    ELSE IF is_dir THEN <<path \o <<"/">> \o DEFAULT_HISTORY_FILE_NAME>>
    ELSE IF has_ext
    THEN (IF Len(home) = 1 THEN <<home[1] \o <<"/">> \o path>> ELSE <<>>)
    ELSE <<>>

\* Repl::get_history_file_path on Some(path): the facts it matches on are
\* path.is_file(), is_dir(), is_absolute(), exists(), extension().is_some()
\* and components().count(); `home` is dirs::home_dir() (<<>> or <<dir>>)
get_history_file_path(path, is_file, is_dir, is_absolute, exists, has_ext, ncomp, home) ==
    IF is_file \/ (is_absolute /\ exists /\ has_ext) THEN <<path>>
    ELSE IF is_dir THEN <<path \o <<"/">> \o DEFAULT_HISTORY_FILE_NAME>>
    ELSE IF has_ext /\ ncomp = 1
    THEN (IF Len(home) = 1 THEN <<home[1] \o <<"/">> \o path>> ELSE <<>>)
    ELSE <<>>

\* the Option<String> handed to Repl::new with what Path finds on disk at
\* it ("file", "dir", "other" for an entry that is neither, or "absent")
\* and dirs::home_dir() (<<>> or <<dir>>)
HistoryArg(path, kind, home) == [path |-> path, kind |-> kind, home |-> home]

\* Path::components: the path cut at "/", a leading "/" being the root
\* component; empty pieces and "." after the first piece are dropped
RECURSIVE Pieces(_, _, _)
Pieces(path, i, piece) ==
    IF i > Len(path) THEN <<piece>>
    ELSE IF path[i] = "/" THEN <<piece>> \o Pieces(path, i + 1, <<>>)
    ELSE Pieces(path, i + 1, Append(piece, path[i]))

components(path) ==
    LET ps == Pieces(path, 1, <<>>)
        kept == {i \in 1..Len(ps) : ps[i] # <<>> /\ (ps[i] # <<".">> \/ i = 1)}
        named == [i \in 1..Len(ps) |-> IF i \in kept THEN <<ps[i]>> ELSE <<>>]
        Flat[i \in 0..Len(ps)] == IF i = 0 THEN <<>> ELSE Flat[i - 1] \o named[i]
    IN (IF Len(path) > 0 /\ path[1] = "/" THEN << <<"/">> >> ELSE <<>>) \o Flat[Len(ps)]

\* Path::is_absolute on Unix
is_absolute(path) == Len(path) > 0 /\ path[1] = "/"

\* Path::extension().is_some(): the last component is a name with a "."
\* after its first character (and is not "..")
has_extension(path) ==
    LET cs == components(path)
        name == IF Len(cs) = 0 THEN <<>> ELSE cs[Len(cs)]
    IN /\ name \notin {<<>>, <<"/">>, <<".">>, <<".", ".">>}
       /\ \E i \in 2..Len(name) : name[i] = "."

\* Repl::new: the history path resolved from the argument
resolve_history_path(arg) ==
    get_history_file_path(arg.path, arg.kind = "file", arg.kind = "dir",
                          is_absolute(arg.path), arg.kind # "absent",
                          has_extension(arg.path), Len(components(arg.path)), arg.home)

\* DefaultHistory::add behind Editor::add_history_entry, as Editor::new()
\* configures it: an empty line and a repeat of the last entry are not added
add_history_entry(h, line) ==
    IF Len(line) = 0 \/ (Len(h) > 0 /\ h[Len(h)] = line) THEN h ELSE Append(h, line)

\* the first word of the line, or the empty string (mod.rs 169-172)
HeadOf(commands) == IF Len(commands) > 0 THEN commands[1] ELSE <<>>

\* the words handed to the grammar (mod.rs 177-178)
CmdParts(command, commands) == <<command>> \o commands

\* Dispatch without the `"" => {}` arm
Dispatch_no_empty_arm(line) ==
    LET parts == split(line) IN
    IF ~parts.ok THEN "TokenizeError"
    ELSE IF is_quit(to_lowercase(HeadOf(parts.words))) THEN "Quit"
    ELSE "Parse"

\* what the loop does with a line that was read (mod.rs 166-234), before any
\* command runs: "TokenizeError", "Empty", "Quit" or "Parse"
Dispatch(line) ==
    LET parts == split(line) IN
    IF ~parts.ok THEN "TokenizeError"
    ELSE IF to_lowercase(HeadOf(parts.words)) = <<>> THEN "Empty"
    ELSE IF is_quit(to_lowercase(HeadOf(parts.words))) THEN "Quit"
    ELSE "Parse"

\* the parse of a dispatched line (mod.rs 181)
ParseLine(line) ==
    LET commands == split(line).words
    IN try_parse_from(CmdParts(HeadOf(commands), commands))

\* AfterCommand with the error swallowed: the loop goes on
AfterCommand_swallowed(end) ==
    CASE end \in {"Ok", "Err"} -> [pc |-> "loop", result |-> "none"]
      [] OTHER -> [pc |-> "panicked", result |-> "none"]

\* how the loop goes on after process_command ended (mod.rs 184): `?`
\* returns an Err at once, a panic unwinds, Ok loops
AfterCommand(end) ==
    CASE end = "Ok" -> [pc |-> "loop", result |-> "none"]
      [] end = "Err" -> [pc |-> "returned", result |-> "Err"]
      [] OTHER -> [pc |-> "panicked", result |-> "none"]

\* AfterEditError with `continue` in the last arm
AfterEditError_continue(err) ==
    CASE err = "Interrupted" -> "break"
      [] err = "Eof" -> "break"
      [] OTHER -> "continue"

\* how the loop goes on after a readline error (mod.rs 236-241)
AfterEditError(err) ==
    CASE err = "Interrupted" -> "break"
      [] err = "Eof" -> "break"
      [] OTHER -> "break"

\* Repl::close_history: the history file after it
close_history(path, h, file) == IF Len(path) = 1 THEN h ELSE file

\* what an iteration leaves in `last`; `fault` records whether the store or
\* the file system failed the operation of the command that ran
Last(read, line, prompt, outcome, cli, fault) ==
    [read |-> read, line |-> line, prompt |-> prompt, outcome |-> outcome, cli |-> cli,
     fault |-> fault]

NoCommand == DefaultCommand("None")

----------------------------------------------------------------------------
(* The inputs explored *)

DefaultCf == <<"d","e","f","a","u","l","t">>
Cf1 == <<"c","f","1">>

\* the stores the shell is started on
Stores ==
    { [c \in {DefaultCf, Cf1} |->
          IF c = DefaultCf THEN [k \in {<<"a">>} |-> <<"1">>] ELSE [k \in {} |-> <<>>]],
      [c \in {DefaultCf, Cf1} |->
          IF c = DefaultCf THEN [k \in {<<"a">>, <<"b">>} |-> IF k = <<"a">> THEN <<"1">> ELSE <<"2">>]
          ELSE [k \in {<<"a">>} |-> <<"2">>]] }

\* what DB::list_cf reports for them
CfList == <<DefaultCf, Cf1>>

\* what ./history_file is when the shell starts
HistoryFileKinds == {"file", "dir", "absent"}

\* a line of words separated by single spaces
RECURSIVE Line(_)
Line(words) ==
    IF Len(words) = 0 THEN <<>>
    ELSE IF Len(words) = 1 THEN words[1]
    ELSE words[1] \o <<" ">> \o Line(Tail(words))

Lines ==
    { <<>>,
      <<"'", "'">>,
      <<"g","e","t"," ","'","a">>,
      QuitWord,
      <<"E","X","I","T">>,
      <<"Q","u","i","t"," ","n","o","w">>,
      <<"l","i","s","t">>,
      <<"L","I","S","T">>,
      Line(<< <<"u","s","e">>, Cf1 >>),
      Line(<< <<"U","s","e">>, Cf1 >>),
      Line(<< <<"u","s","e">>, <<"z","z">> >>),
      Line(<< <<"g","e","t">>, <<"a">> >>),
      Line(<< <<"g","e","t">>, <<"b">> >>),
      <<"g","e","t">>,
      Line(<< <<"p","u","t">>, <<"b">>, <<"2">> >>),
      Line(<< <<"d","e","l","e","t","e">>, <<"a">> >>),
      <<"f","o","o">>,
      HelpName,
      <<"k","e","y","s">>,
      <<"i","n","f","o">>,
      <<"s","c","a","n">>,
      Line(<< <<"s","c","a","n">>, <<"-","o">>, <<"f">> >>),
      Line(<< <<"p","r","e","f","i","x">>, <<"-","p">>, <<"a">> >>),
      Line(<< <<"s","e","a","r","c","h","-","k","e","y">>, <<"-","k">>, <<"a">> >>),
      Line(<< <<"s","e","a","r","c","h","-","v","a","l","u","e">>, <<"-","v">>, <<"2">> >>),
      Line(<< <<"c","o","n","t","a","i","n","s","-","k","e","y">>, <<"-","k">>, <<"b">> >>) }

\* the dispatch and the parse of each explored line, computed once
DispatchOf == [l \in Lines |-> Dispatch(l)]
ParsedOf == [l \in Lines |-> IF Dispatch(l) = "Parse" THEN ParseLine(l) ELSE ParseErr("none")]

----------------------------------------------------------------------------
(* The state machine *)

Init ==
    /\ pc = "loop"
    /\ result = "none"
    /\ db \in Stores
    /\ cf_list = CfList
    /\ current_cf = IF Len(cf_list) = 0 THEN <<>> ELSE cf_list[1]
    /\ readonly \in BOOLEAN
    /\ \E kind \in HistoryFileKinds :
          /\ history_arg = HistoryArg(HistoryFileArg, kind, <<>>)
          /\ history_path = resolve_history_path(history_arg)
          /\ history_file \in (IF kind = "file" THEN {<<>>, << <<"l","i","s","t">> >>} ELSE {<<>>})
    /\ history = IF Len(history_path) = 1 THEN history_file ELSE <<>>
    /\ files = [f \in {} |-> <<>>]
    /\ prompts = 0
    /\ calls = 0
    /\ last = Last("none", <<>>, <<>>, "none", NoCommand, FALSE)
    /\ out = <<>>

\* one iteration of the loop of Repl::process_command in which readline
\* returns Ok(line); `fault` says whether the store or the file system fails
\* the operation the command performs
ReadLine(line, fault) ==
    /\ pc = "loop"
    /\ prompts < MaxLines
    /\ prompts' = prompts + 1
    /\ UNCHANGED <<cf_list, readonly, history_arg, history_path>>
    /\ LET prompt == get_prompt(current_cf)
           d == DispatchOf[line]
       IN CASE d \in {"TokenizeError", "Empty"} ->
                 /\ last' = Last("Ok", line, prompt, d, NoCommand, FALSE)
                 /\ out' = <<>>
                 /\ UNCHANGED <<pc, result, current_cf, db, history, history_file, files, calls>>
            [] d = "Quit" ->
                 /\ last' = Last("Ok", line, prompt, d, NoCommand, FALSE)
                 /\ out' = <<>>
                 /\ pc' = "returned"
                 /\ result' = "Ok"
                 /\ history_file' = close_history(history_path, history, history_file)
                 /\ UNCHANGED <<current_cf, db, history, files, calls>>
            [] OTHER ->
                 LET parsed == ParsedOf[line] IN
                 /\ history' = add_history_entry(history, line)
                 /\ IF parsed.kind = "Ok"
                    THEN LET r == process_command(parsed.cli, current_cf, cf_list, db,
                                                  files, readonly, fault)
                             after == AfterCommand(r.end)
                         IN /\ calls' = calls + 1
                            /\ current_cf' = r.current_cf
                            /\ db' = r.db
                            /\ files' = r.files
                            /\ out' = r.out
                            /\ pc' = after.pc
                            /\ result' = after.result
                            /\ last' = Last("Ok", line, prompt, r.end, parsed.cli, fault)
                            /\ UNCHANGED history_file
                    ELSE /\ out' = <<Msg(parsed.kind, <<>>)>>
                         /\ last' = Last("Ok", line, prompt, "ParseError", NoCommand, FALSE)
                         /\ UNCHANGED <<pc, result, current_cf, db, history_file, files, calls>>

\* one iteration in which readline returns Err(err)
ReadError(err) ==
    /\ pc = "loop"
    /\ prompts < MaxLines
    /\ prompts' = prompts + 1
    /\ last' = Last(err, <<>>, get_prompt(current_cf), "EditError", NoCommand, FALSE)
    /\ out' = <<>>
    /\ IF AfterEditError(err) = "break"
       THEN /\ pc' = "returned"
            /\ result' = "Ok"
            /\ history_file' = close_history(history_path, history, history_file)
       ELSE UNCHANGED <<pc, result, history_file>>
    /\ UNCHANGED <<current_cf, cf_list, db, readonly, history, history_arg, history_path,
                   files, calls>>

\* the commands whose arm in CliProcessor::process_command calls into the
\* store or the file system
StoreCommands ==
    {"Delete", "Get", "Keys", "Info", "Prefix", "Scan", "ContainsKey", "SearchKey",
     "SearchValue"}

\* the faults to explore for a line: a failure can only show where the line
\* runs a command that reaches the store
Faults(line) ==
    IF ParsedOf[line].kind = "Ok" /\ ParsedOf[line].cli.variant \in StoreCommands
    THEN BOOLEAN ELSE {FALSE}

Next ==
    \/ \E line \in Lines : \E fault \in Faults(line) : ReadLine(line, fault)
    \/ \E err \in {"Interrupted", "Eof", "Other"} : ReadError(err)

Spec == Init /\ [][Next]_vars

----------------------------------------------------------------------------
(* Properties *)

\* the step read a line (readline returned Ok) that tokenizes
ReadWords == last'.read = "Ok" /\ prompts' = prompts + 1 /\ split(last'.line).ok
FirstWord(line) == HeadOf(split(line).words)
SubcommandNames == {Subcommands[i].name : i \in 1..Len(Subcommands)}

SessionUnchanged == UNCHANGED <<current_cf, cf_list, db, files>>

\* C1: a line whose first word is `quit` or `exit` in any letter case ends
\* the loop in that iteration: the engine returns Ok, process_command is
\* not called for the line and the line is not added to the history.
C1_QuitEndsLoop ==
    [][(ReadWords /\ to_lowercase(FirstWord(last'.line)) \in {QuitWord, ExitWord})
        => /\ pc' = "returned"
           /\ result' = "Ok"
           /\ calls' = calls
           /\ history' = history]_vars

C1_Witness ==
    /\ pc = "returned"
    /\ last.outcome = "Quit"
    /\ last.line = <<"E","X","I","T">>
    /\ calls = 0

\* C2: when process_command returns an error the engine stops: the error
\* is what Repl::process_command returns, and nothing is read after it.
C2_ErrorStopsEngine ==
    [][/\ pc # "returned"
       /\ (last'.outcome = "Err" /\ prompts' = prompts + 1)
            => /\ pc' = "returned"
               /\ result' = "Err"
               /\ calls' = calls + 1]_vars

C2_Witness ==
    /\ last.outcome = "Err"
    /\ last.cli.variant = "Get"
    /\ pc = "returned"
    /\ result = "Err"

\* C3 (as claimed): however the loop ended, the history was persisted to the
\* resolved history path before the engine returned.
C3_HistorySavedOnEveryReturn ==
    (pc = "returned" /\ Len(history_path) = 1) => history_file = history

C5_UnknownCommandIsParseError ==
    [][(/\ ReadWords
        /\ to_lowercase(FirstWord(last'.line)) \notin {<<>>, QuitWord, ExitWord}
        /\ FirstWord(last'.line) \notin SubcommandNames \cup {HelpName}
        /\ FirstWord(last'.line)[1] # "-")
        => /\ last'.outcome = "ParseError"
           /\ out' = <<Msg("InvalidSubcommand", <<>>)>>
           /\ calls' = calls
           /\ SessionUnchanged
           /\ pc' = "loop"]_vars

C5_Witness ==
    /\ last.line = <<"f","o","o">>
    /\ last.outcome = "ParseError"
    /\ pc = "loop"

\* C6 (as claimed): the history holds only lines that led to a successfully
\* parsed command: no empty line, no quit line, no line that failed
\* tokenization and no line the grammar rejected.
C6_HistoryOnlyParsedCommands ==
    \A i \in 1..Len(history) :
        /\ split(history[i]).ok
        /\ to_lowercase(FirstWord(history[i])) \notin {<<>>, QuitWord, ExitWord}
        /\ ParseLine(history[i]).kind = "Ok"

\* C7: a line that fails tokenization, or whose first word is empty, is
\* dropped: no history entry, no parse, no process_command call, nothing
\* printed; session state, store and history are unchanged and the loop
\* goes on.
C7_BadOrEmptyLineIsDropped ==
    [][(/\ last'.read = "Ok"
        /\ prompts' = prompts + 1
        /\ (~split(last'.line).ok \/ FirstWord(last'.line) = <<>>))
        => /\ last'.outcome \in {"TokenizeError", "Empty"}
           /\ out' = <<>>
           /\ calls' = calls
           /\ history' = history
           /\ history_file' = history_file
           /\ SessionUnchanged
           /\ pc' = "loop"]_vars

C7_Witness ==
    /\ last.outcome = "TokenizeError"
    /\ last.line = <<"g","e","t"," ","'","a">>
    /\ pc = "loop"
    /\ history = <<>>

\* C8 (as claimed): a line whose first word is a command name in any letter
\* case parses to the same command as its lower-case spelling.
C8_DispatchIgnoresCase ==
    (last.read = "Ok" /\ split(last.line).ok /\ to_lowercase(FirstWord(last.line)) \in
        SubcommandNames \ {ExitWord})
    => LET words == split(last.line).words
           lower == <<to_lowercase(words[1])>> \o Tail(words)
           wanted == try_parse_from(CmdParts(lower[1], lower))
       IN wanted.kind = "Ok" => (last.outcome # "ParseError" /\ last.cli = wanted.cli)

\* C9 (as claimed): Put{k, v} writes the pair into the active partition, and
\* a following Get{k} without --json finds k and shows v.
C9_PutThenGet ==
    [][/\ (last'.cli.variant = "Put" /\ last'.outcome = "Ok" /\ prompts' = prompts + 1)
            => /\ last'.cli.key \in DOMAIN db'[current_cf']
               /\ db'[current_cf'][last'.cli.key] = last'.cli.value
       /\ (/\ last.cli.variant = "Put" /\ last.outcome = "Ok"
           /\ last'.cli.variant = "Get" /\ last'.outcome = "Ok"
           /\ last'.cli.key = last.cli.key /\ ~last'.cli.json)
            => out' = print_key_value(last.cli.key, last.cli.value)]_vars

\* C10: Use{name} makes `name` the active partition exactly when `name` is in
\* the known-partition list; for any other name it prints "not selected"
\* and the active partition stays; the list and the store never change.
C10_UseSwitchesIffKnown ==
    [][(last'.cli.variant = "Use" /\ prompts' = prompts + 1)
        => LET name == last'.cli.name IN
           /\ IF \E i \in 1..Len(cf_list) : cf_list[i] = name
              THEN current_cf' = name
              ELSE /\ current_cf' = current_cf
                   /\ out' = <<Msg("No column family selected", name)>>
           /\ UNCHANGED <<cf_list, db, files>>
           /\ last'.outcome = "Ok"]_vars

C10_Witness ==
    /\ last.cli.variant = "Use"
    /\ last.cli.name = Cf1
    /\ current_cf = Cf1
    /\ prompts = 1

\* the active partition is one of the known partitions, or the empty string
\* when there is none (db.rs 40-44)
ActiveIsKnown == Known(cf_list, current_cf) \/ (Len(cf_list) = 0 /\ current_cf = <<>>)

\* C11: in every reachable state the active partition is a member of the
\* known-partition list (or the empty string when the store has no
\* partition), and no step changes the known-partition list.
C11_ActivePartitionIsKnown ==
    /\ ActiveIsKnown
    /\ [][ActiveIsKnown' /\ cf_list' = cf_list]_vars

C11_Witness ==
    /\ prompts = MaxLines
    /\ last.cli.variant = "Use"
    /\ ~Known(cf_list, last.cli.name)
    /\ current_cf = Cf1
    /\ cf_list = CfList

\* the step ran a command through CliProcessor::process_command
RanCommand == calls' = calls + 1

\* the store failed the write of a Delete (read-only mode or an I/O error)
\* or the read of a Get
StoreFailed(cli, ro, fault) ==
    \/ cli.variant = "Delete" /\ ~StoreWritable(ro, fault)
    \/ cli.variant = "Get" /\ fault

\* C12 (as claimed): when the store fails the operation of a command (the
\* store rejecting Delete in read-only mode, a failed read in Get),
\* process_command returns an error and the session ends; the failure is
\* never reported as a success or as "not found".
C12_StoreFailureIsSurfaced ==
    [][(RanCommand /\ StoreFailed(last'.cli, readonly, last'.fault))
        => /\ last'.outcome = "Err"
           /\ pc' = "returned"
           /\ result' = "Err"
           /\ \A i \in 1..Len(out') :
                 out'[i].text \notin {"Key not found", "Key deleted", "Key deleted successfully"}]_vars

\* C13 (as claimed): Delete{key} on a key that is absent from the active
\* partition, on a store that accepts the write, is not an error:
\* process_command returns success, the store is unchanged and the user is
\* told "not found", not that the key was deleted.
C13_DeleteAbsentKeySaysNotFound ==
    [][(/\ RanCommand
        /\ last'.cli.variant = "Delete"
        /\ last'.cli.key \notin DOMAIN db[current_cf]
        /\ StoreWritable(readonly, last'.fault))
        => /\ last'.outcome = "Ok"
           /\ pc' = "loop"
           /\ db' = db
           /\ \E i \in 1..Len(out') : out'[i].text = "Key not found"
           /\ \A i \in 1..Len(out') :
                 out'[i].text \notin {"Key deleted", "Key deleted successfully"}]_vars

\* C14: Get{key} on a key that is absent from the active partition, the
\* store answering the read, prints "Key not found" and nothing else,
\* returns success so the loop goes on, and leaves the store, the files and
\* the session state as they were.
C14_GetAbsentKeySaysNotFound ==
    [][(/\ RanCommand
        /\ last'.cli.variant = "Get"
        /\ last'.cli.key \notin DOMAIN db[current_cf]
        /\ ~last'.fault)
        => /\ last'.outcome = "Ok"
           /\ out' = <<Msg("Key not found", <<>>)>>
           /\ pc' = "loop"
           /\ result' = "none"
           /\ SessionUnchanged
           /\ readonly' = readonly]_vars

C14_Witness ==
    /\ last.cli.variant = "Get"
    /\ last.cli.key \notin DOMAIN db[current_cf]
    /\ ~last.fault
    /\ last.outcome = "Ok"
    /\ out = <<Msg("Key not found", <<>>)>>
    /\ pc = "loop"

----------------------------------------------------------------------------
(* The query commands, applied to a partition: one call of                  *)
(* CliProcessor::process_command with a DBCommand value, as the loop makes  *)
(* it after the parse (pc = "parsed"), on a store and a file system that    *)
(* work.                                                                    *)

\* the largest --limit explored besides the default of the command
MaxLimit == 2

User1 == <<"u","s","e","r","1">>
User2 == <<"u","s","e","r","2">>
Admin == <<"a","d","m","i","n">>
Zoo == <<"z","o","o">>

\* the contents of the active partition
Letters == [k \in {<<"a">>, <<"b">>, <<"c">>, <<"d">>, <<"e">>, <<"f">>} |-> <<"1">>]
Users ==
    [k \in {User1, User2, Admin, Zoo} |->
        CASE k = User1 -> <<"u","1">>
          [] k = User2 -> <<"u","2">>
          [] k = Admin -> <<"a">>
          [] OTHER -> <<"u","s","e","r">>]
Trio == [k \in {User1, User2, Admin} |-> <<"1">>]
Pairs ==
    [k \in {<<"k","1">>, <<"k","2">>} |->
        IF k = <<"k","1">> THEN <<"a","X","b">> ELSE <<"a","b","c">>]

\* values to highlight, under keys that every search-key pattern occurs in
TextKey(d) == <<"u","u","e","r",d>>
Texts ==
    [k \in {TextKey(Digits[i]) : i \in 1..8} |->
        CASE k = TextKey("0") -> <<>>
          [] k = TextKey("1") -> <<"u","X","u">>
          [] k = TextKey("2") -> <<"u","u","u">>
          [] k = TextKey("3") -> <<"e","r","e","r">>
          [] k = TextKey("4") -> <<"e","e","r","u">>
          [] k = TextKey("5") -> <<"u",InvalidByte>>
          [] k = TextKey("6") -> <<"X">>
          [] OTHER -> <<"u","u","u","u","e">>]

QueryStores ==
    { [c \in {DefaultCf, Cf1} |-> IF c = DefaultCf THEN part ELSE [k \in {} |-> <<>>]] :
        part \in {Letters, Users, Trio, Pairs, Texts} }

\* --all and --limit as given on the line
LimitModes(variant) ==
    [all : {FALSE}, limit : (0..MaxLimit) \cup {DefaultLimit(variant)}]
        \cup [all : {TRUE}, limit : {0, 1}]

OutFile == <<"f">>

ScanCommands ==
    { [DefaultCommand("Scan") EXCEPT !.start = b, !.end = e, !.reverse = r,
                                     !.all = m.all, !.limit = m.limit, !.output = o] :
        b \in {<<>>, << <<"b">> >>}, e \in {<<>>, << <<"e">> >>}, r \in BOOLEAN,
        m \in LimitModes("Scan"), o \in {<<>>, <<OutFile>>} }

PrefixCommands ==
    { [DefaultCommand("Prefix") EXCEPT !.prefix = x, !.with_highlight = h,
                                       !.all = m.all, !.limit = m.limit, !.output = o] :
        x \in {<<>>, <<"a">>, <<"u","s">>, User1}, h \in BOOLEAN,
        m \in LimitModes("Prefix"), o \in {<<>>, <<OutFile>>} }

SearchKeyCommands ==
    { [DefaultCommand("SearchKey") EXCEPT !.key = x, !.with_highlight = h,
                                          !.all = m.all, !.limit = m.limit, !.output = o] :
        x \in {<<>>, <<"u">>, <<"u","u">>, <<"e","r">>}, h \in BOOLEAN, m \in LimitModes("SearchKey"), o \in {<<>>, <<OutFile>>} }

SearchValueCommands ==
    { [DefaultCommand("SearchValue") EXCEPT !.value = x, !.with_highlight = h,
                                            !.all = m.all, !.limit = m.limit, !.output = o] :
        x \in {<<>>, <<"u">>, <<"X">>}, h \in BOOLEAN, m \in LimitModes("SearchValue"), o \in {<<>>, <<OutFile>>} }

KeysCommands ==
    { [DefaultCommand("Keys") EXCEPT !.limit = n] :
        n \in (0..MaxLimit) \cup {DefaultLimit("Keys")} }

QueryCommands ==
    ScanCommands \cup PrefixCommands \cup SearchKeyCommands \cup SearchValueCommands
        \cup KeysCommands

InitCmd ==
    /\ pc = "parsed"
    /\ result = "none"
    /\ db \in QueryStores
    /\ cf_list = CfList
    /\ current_cf = cf_list[1]
    /\ readonly = TRUE
    /\ history_arg = HistoryArg(HistoryFileArg, "absent", <<>>)
    /\ history_path = <<>>
    /\ history_file = <<>>
    /\ history = <<>>
    /\ files = [f \in {} |-> <<>>]
    /\ prompts = 0
    /\ calls = 0
    /\ last = Last("none", <<>>, <<>>, "none", NoCommand, FALSE)
    /\ out = <<>>

\* one call of CliProcessor::process_command, and what the loop does with
\* its result (mod.rs 184)
Execute(command) ==
    /\ pc = "parsed"
    /\ LET r == process_command(command, current_cf, cf_list, db, files, readonly, FALSE)
           after == AfterCommand(r.end)
       IN /\ calls' = calls + 1
          /\ current_cf' = r.current_cf
          /\ db' = r.db
          /\ files' = r.files
          /\ out' = r.out
          /\ pc' = after.pc
          /\ result' = after.result
          /\ last' = Last("none", <<>>, get_prompt(current_cf), r.end, command, FALSE)
    /\ UNCHANGED <<cf_list, readonly, history, history_arg, history_path, history_file,
                   prompts>>

NextCmd == \E command \in QueryCommands : Execute(command)

SpecCmd == InitCmd /\ [][NextCmd]_vars

----------------------------------------------------------------------------
(* Properties of the query commands *)

Min(a, b) == IF a < b THEN a ELSE b

\* the rows of the tables a command printed, in order
RECURSIVE TableRows(_)
TableRows(printed) ==
    IF Len(printed) = 0 THEN <<>> ELSE printed[1].rows \o TableRows(Tail(printed))

\* what the step emitted: the lines of the --output file, else the rows shown
Emitted ==
    LET o == last'.cli.output
    IN IF Len(o) = 1 THEN (IF o[1] \in DOMAIN files' THEN files'[o[1]] ELSE <<>>)
       ELSE TableRows(out')

\* how pairs are emitted by a command: as file lines or as table rows
Rendered(pairs, cli) ==
    IF Len(cli.output) = 1 THEN FileLines(pairs) ELSE [i \in 1..Len(pairs) |-> ListRow(pairs[i])]

\* the lazy result a multi-result command hands to print_or_output_to_file
QueryOf(cli, part) ==
    CASE cli.variant = "Scan" -> scan(part, cli.start, cli.end, cli.reverse, FALSE)
      [] cli.variant = "Prefix" -> prefix(part, cli.prefix, cli.with_highlight, FALSE)
      [] cli.variant = "SearchKey" -> search_key(part, cli.key, cli.with_highlight, FALSE)
      [] cli.variant = "SearchValue" -> search_value(part, cli.value, cli.with_highlight, FALSE)

MultiResult == {"Scan", "Prefix", "SearchKey", "SearchValue"}

\* C15: for Scan, Prefix, SearchKey and SearchValue, with `all` false the
\* command emits exactly min(limit, n) rows, n being the number of rows its
\* query yields, and they are the first ones in iteration order (none for
\* limit = 0); with `all` true it emits every row whatever `limit` is.
C15_LimitIsExact ==
    [][(RanCommand /\ last'.cli.variant \in MultiResult)
        => LET cli == last'.cli
               rows == QueryOf(cli, db[current_cf]).items
               n == IF cli.all THEN Len(rows) ELSE Min(cli.limit, Len(rows))
           IN /\ Len(Emitted) = n
              /\ Emitted = Rendered(SubSeq(rows, 1, n), cli)]_vars

C15_Witness ==
    /\ last.cli.variant = "Scan"
    /\ ~last.cli.all
    /\ last.cli.limit = 1
    /\ last.cli.output = <<>>
    /\ Len(scan(db[current_cf], last.cli.start, last.cli.end, FALSE, FALSE).items) > 1
    /\ Len(TableRows(out)) = 1
    /\ last.outcome = "Ok"

\* the rows a command emits of the pairs its query is to yield
Shown(pairs, cli) == IF cli.all THEN pairs ELSE Take(pairs, cli.limit)

\* the pairs of `part` under the keys in `keys`, in ascending key order
PairsOf(part, keys) ==
    LET ks == Ascending(keys) IN [i \in 1..Len(ks) |-> <<ks[i], part[ks[i]]>>]

\* C16 (as claimed): Keys{limit} prints at most `limit` keys, for limit = 0
\* too: exactly the first min(limit, partition size) keys of the active
\* partition in ascending order.
C16_KeysAtMostLimit ==
    [][(RanCommand /\ last'.cli.variant = "Keys" /\ ~last'.fault)
        => LET ks == Ascending(DOMAIN db[current_cf])
               n == Min(last'.cli.limit, Len(ks))
           IN /\ Len(out') <= last'.cli.limit
              /\ out' = [i \in 1..n |-> Msg("key", from_utf8_lossy(ks[i]))]]_vars

\* C17: Scan{start, end, reverse} yields exactly the pairs whose key k has
\* start <= k < end (a missing bound does not bound), each once, in
\* ascending key order, or in descending key order when reverse is set.
C17_ScanIsTheBoundedRange ==
    [][(RanCommand /\ last'.cli.variant = "Scan")
        => LET cli == last'.cli
               part == db[current_cf]
               inside == {k \in DOMAIN part :
                            /\ (Len(cli.start) = 1 => BytesLeq(cli.start[1], k))
                            /\ (Len(cli.end) = 1 => BytesLess(k, cli.end[1]))}
               asc == PairsOf(part, inside)
               wanted == IF cli.reverse THEN [i \in 1..Len(asc) |-> asc[Len(asc) + 1 - i]]
                         ELSE asc
           IN /\ last'.outcome = "Ok"
              /\ Emitted = Rendered(Shown(wanted, cli), cli)]_vars

C17_Witness ==
    /\ db[current_cf] = Letters
    /\ last.cli.variant = "Scan"
    /\ last.cli.start = << <<"b">> >>
    /\ last.cli.end = << <<"e">> >>
    /\ last.cli.reverse
    /\ last.cli.all
    /\ TableRows(out) = << << <<"d">>, <<"1">> >>, << <<"c">>, <<"1">> >>, << <<"b">>, <<"1">> >> >>

StartsWith(key, head) == Len(head) <= Len(key) /\ SubSeq(key, 1, Len(head)) = head

\* C18 (as claimed): Prefix{prefix} yields exactly the pairs of the active
\* partition whose key starts with `prefix`, and no other pair, whatever
\* the length of the prefix and the content of the partition.
C18_PrefixIsExact ==
    [][(RanCommand /\ last'.cli.variant = "Prefix")
        => LET cli == last'.cli
               part == db[current_cf]
               asc == PairsOf(part, {k \in DOMAIN part : StartsWith(k, cli.prefix)})
               wanted == [i \in 1..Len(asc) |->
                             IF cli.with_highlight
                             THEN <<highlight_pattern(cli.prefix, asc[i][1]), asc[i][2]>>
                             ELSE asc[i]]
           IN /\ last'.outcome = "Ok"
              /\ Emitted = Rendered(Shown(wanted, cli), cli)]_vars

\* `pattern` occurs in `text` as a contiguous substring (the empty pattern
\* occurs in every text)
Occurs(pattern, text) ==
    \E i \in 1..(Len(text) + 1) :
        /\ i + Len(pattern) - 1 <= Len(text)
        /\ SubSeq(text, i, i + Len(pattern) - 1) = pattern

\* the pattern of a search command and the side it is matched on
PatternOf(cli) == IF cli.variant = "SearchKey" THEN cli.key ELSE cli.value
SideOf(cli) == IF cli.variant = "SearchKey" THEN 1 ELSE 2

\* C19 (as claimed): SearchKey{pattern} returns exactly the pairs whose key
\* contains `pattern` as a contiguous substring, SearchValue{pattern}
\* exactly those whose value contains it, each once and in ascending key
\* order; no other pair is returned.
C19_SearchIsExact ==
    [][(RanCommand /\ last'.cli.variant \in {"SearchKey", "SearchValue"})
        => LET cli == last'.cli
               part == db[current_cf]
               asc == PairsOf(part, {k \in DOMAIN part :
                                       Occurs(PatternOf(cli), <<k, part[k]>>[SideOf(cli)])})
               wanted == [i \in 1..Len(asc) |->
                             IF cli.with_highlight
                             THEN <<asc[i][1], highlight_pattern(PatternOf(cli), asc[i][2])>>
                             ELSE asc[i]]
           IN /\ last'.outcome = "Ok"
              /\ Emitted = Rendered(Shown(wanted, cli), cli)]_vars

C21_RoutingIsExclusive ==
    [][(RanCommand /\ last'.cli.variant \in MultiResult)
        => LET cli == last'.cli
               rows == Shown(QueryOf(cli, db[current_cf]).items, cli)
           IN IF Len(cli.output) = 1
              THEN /\ out' = <<>>
                   /\ DOMAIN files' = DOMAIN files \cup {cli.output[1]}
                   /\ files'[cli.output[1]] =
                         [i \in 1..Len(rows) |->
                             from_utf8_lossy(rows[i][1]) \o <<":", " ">>
                                 \o from_utf8_lossy(rows[i][2])]
                   /\ \A f \in DOMAIN files \ {cli.output[1]} : files'[f] = files[f]
              ELSE /\ files' = files
                   /\ Len(TableRows(out')) = Len(rows)
                   /\ \A i \in 1..Len(out') : out'[i].text = "table"]_vars

C21_Witness ==
    /\ last.cli.variant = "SearchValue"
    /\ last.cli.output = <<OutFile>>
    /\ OutFile \in DOMAIN files
    /\ Len(files[OutFile]) > 0
    /\ out = <<>>
    /\ last.outcome = "Ok"

----------------------------------------------------------------------------
(* Repl::new on a history file argument, followed by the end of the loop:  *)
(* the path is resolved, the history is loaded from it, and close_history  *)
(* saves to it.                                                            *)

HomeDir == <<"/","h","o","m","e">>

HistoryPaths ==
    { HistoryFileArg,
      <<"h">>,
      <<".","h">>,
      <<"h",".","t","x","t">>,
      <<"d","/","h",".","t","x","t">>,
      <<"/","t","/","h">>,
      <<"/","t","/","h",".","t","x","t">> }

InitPath ==
    /\ pc = "new"
    /\ result = "none"
    /\ db \in Stores
    /\ cf_list = CfList
    /\ current_cf = cf_list[1]
    /\ readonly = TRUE
    /\ history_arg \in {HistoryArg(p, k, h) : p \in HistoryPaths,
                                           k \in {"file", "dir", "other", "absent"},
                                           h \in {<<>>, <<HomeDir>>}}
    /\ history_path = <<>>
    /\ history_file \in (IF history_arg.kind = "file"
                         THEN {<<>>, << <<"l","i","s","t">> >>} ELSE {<<>>})
    /\ history = <<>>
    /\ files = [f \in {} |-> <<>>]
    /\ prompts = 0
    /\ calls = 0
    /\ last = Last("none", <<>>, <<>>, "none", NoCommand, FALSE)
    /\ out = <<>>

\* Repl::new: get_history_file_path, then get_editor loading the history
NewRepl ==
    /\ pc = "new"
    /\ pc' = "loop"
    /\ history_path' = resolve_history_path(history_arg)
    /\ history' = IF Len(history_path') = 1 THEN history_file ELSE <<>>
    /\ UNCHANGED <<result, current_cf, cf_list, db, readonly, history_arg, history_file,
                   files, prompts, calls, last, out>>

NextPath ==
    \/ NewRepl
    \/ \E err \in {"Interrupted", "Eof", "Other"} : ReadError(err)

SpecPath == InitPath /\ [][NextPath]_vars

\* C22: history-path resolution gives one answer for every combination of
\* the facts it looks at, by the first branch that applies, in the order:
\* (a) an existing file, or an absolute existing path with an extension:
\* the path as given; (b) an existing directory: the path plus
\* `.repl_history`; (c) one component with an extension: the path under the
\* home directory (none when there is no home directory); (d) otherwise
\* none. A path that does not exist and has no extension or more than one
\* component resolves to none, and then no history is loaded or saved.
C22_HistoryPathResolution ==
    [][/\ (pc = "new" /\ pc' = "loop")
            => LET a == history_arg
                   ext == has_extension(a.path)
                   n == Len(components(a.path))
                   A == a.kind = "file" \/ (is_absolute(a.path) /\ a.kind # "absent" /\ ext)
                   B == a.kind = "dir"
                   C == ext /\ n = 1
                   wanted == IF A THEN <<a.path>>
                             ELSE IF B THEN <<a.path \o <<"/">> \o DEFAULT_HISTORY_FILE_NAME>>
                             ELSE IF C /\ Len(a.home) = 1 THEN <<a.home[1] \o <<"/">> \o a.path>>
                             ELSE <<>>
               IN /\ history_path' = wanted
                  /\ (a.kind = "absent" /\ (~ext \/ n # 1))
                        => (history_path' = <<>> /\ history' = <<>>)
       /\ (pc = "loop" /\ pc' = "returned" /\ history_path = <<>>)
            => history_file' = history_file]_vars

C22_Witness ==
    /\ history_arg = HistoryArg(HistoryFileArg, "absent", <<HomeDir>>)
    /\ history_path = <<>>
    /\ pc = "returned"
    /\ history_file = <<>>

----------------------------------------------------------------------------
(* cli_helper.rs: the completion the editor asks of CliHelper when Tab is   *)
(* pressed at the end of the line typed so far                              *)

\* the command names main.rs gives to CliHelper::new, in its order
CompletionCommands ==
    << <<"h","e","l","p">>,
       <<"l","i","s","t">>,
       <<"i","n","f","o">>,
       <<"u","s","e">>,
       <<"k","e","y","s">>,
       <<"c","o","n","t","a","i","n","s","-","k","e","y">>,
       <<"s","e","a","r","c","h","-","v","a","l","u","e">>,
       <<"s","e","a","r","c","h","-","k","e","y">>,
       <<"p","r","e","f","i","x">>,
       <<"e","x","i","t">>,
       <<"p","u","t">>,
       <<"g","e","t">>,
       <<"d","e","l","e","t","e">>,
       <<"s","c","a","n">>,
       <<"q","u","i","t">> >>

\* rustyline's Pair
Pair(display, replacement) == [display |-> display, replacement |-> replacement]

\* the (start, candidates) result of Completer::complete
Completion(start, candidates) == [text |-> "completion", start |-> start, candidates |-> candidates]

\* the index after the last space of the line, where the word to complete starts
RECURSIVE WordStart(_, _)
WordStart(line, pos) ==
    IF pos = 0 THEN 0 ELSE IF line[pos] = " " THEN pos ELSE WordStart(line, pos - 1)

\* FilenameCompleter::complete over the entries `names` of the working
\* directory: the entries that start with the word under the cursor
filename_complete(line, pos, names) ==
    LET start == WordStart(line, pos)
        word == SubSeq(line, start + 1, pos)
        found == Ascending({n \in names : Len(word) <= Len(n) /\ SubSeq(n, 1, Len(word)) = word})
    IN Completion(start, [i \in 1..Len(found) |-> Pair(found[i], found[i])])

\* the command candidates of CliHelper::complete (cli_helper.rs 40-48)
CommandCandidates(line, commands) ==
    LET found == SelectSeq(commands,
                     LAMBDA cmd : Len(line) <= Len(cmd) /\ SubSeq(cmd, 1, Len(line)) = line)
    IN [i \in 1..Len(found) |-> Pair(found[i], found[i])]

\* complete offering the matching file names after the command names
complete_mixed(line, pos, commands, names) ==
    IF Len(line) = 0 \/ line[Len(line)] = " " THEN filename_complete(line, pos, names)
    ELSE Completion(0, CommandCandidates(line, commands)
                           \o filename_complete(line, pos, names).candidates)

\* CliHelper::complete
complete(line, pos, commands, names) ==
    IF Len(line) = 0 \/ line[Len(line)] = " " THEN filename_complete(line, pos, names)
    ELSE LET candidates == CommandCandidates(line, commands)
         IN IF Len(candidates) = 0 THEN filename_complete(line, pos, names)
            ELSE Completion(0, candidates)

\* the texts whose beginnings are typed before Tab is pressed
TypedTexts ==
    { <<"s","e","a","r","c","h","-","v","a","l","u","e">>,
      <<"c","o","n","t","a","i","n","s","-","k","e","y">>,
      <<"d","e","l","e","t","e"," ">>,
      <<"g","e","t",".","t","x","t">>,
      <<"g","e","t"," ","a">>,
      <<"d","a","t","a">>,
      <<"z","z">>,
      <<"p","u","t"," ","d">>,
      <<"s","c","a","n"," ","-","o"," ","d","a">> }

CompletionLines == UNION {{SubSeq(t, 1, n) : n \in 0..Len(t)} : t \in TypedTexts}

\* the entries of the working directory
DirEntries ==
    { {}, {<<"g","e","t",".","t","x","t">>, <<"d","a","t","a">>}, {<<"g","e","t">>, <<"l","i","s","t",".","d">>, <<"z","z","z">>} }

InitComplete ==
    /\ pc = "loop"
    /\ result = "none"
    /\ db \in {CHOOSE st \in Stores : TRUE}
    /\ cf_list = CfList
    /\ current_cf = cf_list[1]
    /\ readonly = TRUE
    /\ history_arg = HistoryArg(HistoryFileArg, "absent", <<>>)
    /\ history_path = <<>>
    /\ history_file = <<>>
    /\ history = <<>>
    /\ files \in {[f \in names |-> <<>>] : names \in DirEntries}
    /\ prompts = 0
    /\ calls = 0
    /\ last = Last("none", <<>>, <<>>, "none", NoCommand, FALSE)
    /\ out = <<>>

\* Tab at the end of `line`: the editor calls CliHelper::complete and shows
\* the candidates
Complete(line) ==
    /\ pc = "loop"
    /\ last' = Last("Tab", line, get_prompt(current_cf), "Completion", NoCommand, FALSE)
    /\ out' = <<complete(line, Len(line), CompletionCommands, DOMAIN files)>>
    /\ UNCHANGED <<pc, result, current_cf, cf_list, db, readonly, history, history_arg,
                   history_path, history_file, files, prompts, calls>>

NextComplete == \E line \in CompletionLines : Complete(line)

SpecComplete == InitComplete /\ [][NextComplete]_vars

\* C23: completion returns candidates of one kind: for an empty line or a
\* line ending in a space, exactly the file-name completion; otherwise
\* exactly the known command names that start with the line, when there is
\* one, and exactly the file-name completion when there is none. Command
\* names and file names are never mixed in one response.
C23_CompletionIsOneKind ==
    [][(last'.outcome = "Completion")
        => LET line == last'.line
               names == [i \in 1..Len(CompletionCommands) |-> CompletionCommands[i]]
               matching == SelectSeq(names, LAMBDA c : StartsWith(c, line))
               paths == filename_complete(line, Len(line), DOMAIN files)
           IN /\ Len(out') = 1
              /\ IF Len(line) = 0 \/ line[Len(line)] = " " \/ Len(matching) = 0
                 THEN out'[1] = paths
                 ELSE /\ out'[1].start = 0
                      /\ out'[1].candidates =
                            [i \in 1..Len(matching) |-> Pair(matching[i], matching[i])]]_vars

C23_Witness ==
    /\ last.outcome = "Completion"
    /\ last.line = <<"g","e">>
    /\ <<"g","e","t",".","t","x","t">> \in DOMAIN files
    /\ out = <<Completion(0, <<Pair(<<"g","e","t">>, <<"g","e","t">>)>>)>>

\* the prompt that names partition `cf`
PromptNaming(cf) == <<"[">> \o cf \o <<"]", " ", ">", ">">>

\* C24: every loop iteration gets its prompt from the processor when it
\* starts, and the prompt names the partition that is active then: the
\* prompt after a successful Use{X} shows X, and the prompt after a
\* rejected Use shows the same partition as the prompt before it.
C24_PromptNamesActivePartition ==
    [][(prompts' = prompts + 1)
        => /\ last'.prompt = PromptNaming(current_cf)
           /\ (last.cli.variant = "Use" /\ Known(cf_list, last.cli.name))
                => last'.prompt = PromptNaming(last.cli.name)
           /\ (last.cli.variant = "Use" /\ ~Known(cf_list, last.cli.name))
                => last'.prompt = last.prompt]_vars

C24_Witness ==
    /\ prompts = MaxLines
    /\ last.prompt = PromptNaming(Cf1)
    /\ last.cli.variant = "Get"
    /\ current_cf = Cf1

----------------------------------------------------------------------------
(* The batched table output: commands that show a partition of up to       *)
(* MaxRows pairs                                                           *)

\* the largest number of pairs in the partition shown
MaxRows == 201

\* the i-th key, three decimal digits, so that key order is numeric order
RowKey(i) ==
    <<Digits[((i \div 100) % 10) + 1], Digits[((i \div 10) % 10) + 1], Digits[(i % 10) + 1]>>

\* a store whose active partition holds n pairs
RowStore(n) ==
    [c \in {DefaultCf, Cf1} |->
        IF c = DefaultCf THEN [k \in {RowKey(i) : i \in 1..n} |-> <<"v">>]
        ELSE [k \in {} |-> <<>>]]

\* the pairs of such a partition as its iterator yields them: RowKey is
\* ascending in i
RowEntries(part) ==
    [i \in 1..Cardinality(DOMAIN part) |-> <<RowKey(i), part[RowKey(i)]>>]

\* `scan --all` and `scan --limit n` around the batch size
BatchCommands ==
    { [DefaultCommand("Scan") EXCEPT !.all = TRUE] }
        \cup { [DefaultCommand("Scan") EXCEPT !.limit = n] :
                  n \in {BATH_ROWS - 1, BATH_ROWS, BATH_ROWS + 1} }

InitBatch ==
    /\ pc = "parsed"
    /\ result = "none"
    /\ db \in {RowStore(n) : n \in 0..MaxRows}
    /\ cf_list = CfList
    /\ current_cf = cf_list[1]
    /\ readonly = TRUE
    /\ history_arg = HistoryArg(HistoryFileArg, "absent", <<>>)
    /\ history_path = <<>>
    /\ history_file = <<>>
    /\ history = <<>>
    /\ files = [f \in {} |-> <<>>]
    /\ prompts = 0
    /\ calls = 0
    /\ last = Last("none", <<>>, <<>>, "none", NoCommand, FALSE)
    /\ out = <<>>

\* the Scan arm of process_command on such a partition: the pairs go
\* through print_or_output_to_file to print_key_value_list
ShowPartition(command) ==
    /\ pc = "parsed"
    /\ \E r \in {print_or_output_to_file(Lazy(RowEntries(db[current_cf]), FALSE), command.all,
                                          command.limit, command.output, files, FALSE)} :
       LET after == AfterCommand(r.end)
       IN /\ calls' = calls + 1
          /\ files' = r.files
          /\ out' = r.out
          /\ pc' = after.pc
          /\ result' = after.result
          /\ last' = Last("none", <<>>, get_prompt(current_cf), r.end, command, FALSE)
    /\ UNCHANGED <<current_cf, cf_list, db, readonly, history, history_arg, history_path,
                   history_file, prompts>>

NextBatch == \E command \in BatchCommands : ShowPartition(command)

SpecBatch == InitBatch /\ [][NextBatch]_vars

\* C25: the batched table output loses and duplicates nothing: the rows of
\* the printed tables, in order, are the input rows, each once; a table is
\* printed each time the row count reaches a multiple of 100, so every
\* table but the last holds exactly 100 rows and none holds more; the last
\* partial batch is printed when it is not empty, and no empty table is
\* printed, also when the number of rows is a multiple of 100.
C25_BatchesLoseNothing ==
    [][(RanCommand /\ last'.cli.variant \in MultiResult /\ last'.cli.output = <<>>)
        => \A input \in {Shown(RowEntries(db[current_cf]), last'.cli)} :
           LET n == Len(input)
           IN /\ TableRows(out') = [i \in 1..n |-> ListRow(input[i])]
              /\ Len(out') = (n + BATH_ROWS - 1) \div BATH_ROWS
              /\ \A b \in 1..Len(out') :
                    /\ out'[b].text = "table"
                    /\ Len(out'[b].rows) >= 1
                    /\ Len(out'[b].rows) <= BATH_ROWS
                    /\ b < Len(out') => Len(out'[b].rows) = BATH_ROWS]_vars

C25_Witness ==
    /\ last.cli.variant = "Scan"
    /\ last.cli.all
    /\ Cardinality(DOMAIN db[current_cf]) = 2 * BATH_ROWS
    /\ Len(out) = 2
    /\ Len(out[1].rows) = BATH_ROWS
    /\ Len(out[2].rows) = BATH_ROWS

\* a text without the highlight markers
Strip(text) == SelectSeq(text, LAMBDA c : c \notin {HighlightOn, HighlightOff})

\* `shown` is `text` with each occurrence of `pattern` found from left to
\* right, without overlap, between the markers
WrapsOccurrences(pattern, text, shown) ==
    /\ Strip(shown) = text
    /\ \A i \in 1..Len(shown) :
          /\ shown[i] = HighlightOn
                => /\ i + Len(pattern) + 1 <= Len(shown)
                   /\ SubSeq(shown, i + 1, i + Len(pattern)) = pattern
                   /\ shown[i + Len(pattern) + 1] = HighlightOff
                   /\ LET offs == {j \in 1..(i - 1) : shown[j] = HighlightOff}
                          from == IF offs = {} THEN 1
                                  ELSE (CHOOSE j \in offs : \A o \in offs : o <= j) + 1
                      IN ~Occurs(pattern, SubSeq(shown, from, i - 1)
                                              \o SubSeq(pattern, 1, Len(pattern) - 1))
          /\ shown[i] = HighlightOff
                => (i > Len(pattern) + 1 /\ shown[i - Len(pattern) - 1] = HighlightOn)
          /\ (i + Len(pattern) - 1 <= Len(shown)
              /\ SubSeq(shown, i, i + Len(pattern) - 1) = pattern)
                => (i > 1 /\ shown[i - 1] = HighlightOn)

\* the pattern and the texts a command with --with-highlight hands to
\* highlight_pattern: the keys for Prefix, the values for the searches
HighlightPattern(cli) == IF cli.variant = "Prefix" THEN cli.prefix ELSE PatternOf(cli)
HighlightTexts(cli, part) ==
    IF cli.variant = "Prefix" THEN DOMAIN part ELSE {part[k] : k \in DOMAIN part}

\* C26: highlight_pattern only changes what is shown, and reversibly: its
\* output is the input with each occurrence of the pattern, found from left
\* to right without overlap, between the markers, so that removing the
\* markers gives the input back; the input is returned as it is for the
\* empty pattern, for bytes that are not UTF-8 and when the pattern does
\* not occur; the stored bytes are not changed by a highlighting command.
C26_HighlightIsReversible ==
    [][(/\ RanCommand
        /\ last'.cli.variant \in {"Prefix", "SearchKey", "SearchValue"}
        /\ last'.cli.with_highlight)
        => /\ db' = db
           /\ \A text \in HighlightTexts(last'.cli, db[current_cf]) :
              \A pattern \in {HighlightPattern(last'.cli)} :
              \A shown \in {highlight_pattern(pattern, text)} :
                 /\ Strip(shown) = text
                 /\ (Len(pattern) = 0 \/ ~IsUtf8(text) \/ ~Occurs(pattern, text))
                       => shown = text
                 /\ (Len(pattern) > 0 /\ IsUtf8(text))
                       => WrapsOccurrences(pattern, text, shown)]_vars

C26_Witness ==
    /\ db[current_cf] = Texts
    /\ last.cli.variant = "SearchKey"
    /\ last.cli.key = <<"u","u">>
    /\ last.cli.with_highlight
    /\ last.cli.all
    /\ last.cli.output = <<>>
    /\ TableRows(out)[3] =
          <<TextKey("2"), <<HighlightOn, "u", "u", HighlightOff, "u">> >>
    /\ TableRows(out)[8] =
          <<TextKey("7"), <<HighlightOn, "u", "u", HighlightOff,
                            HighlightOn, "u", "u", HighlightOff, "e">> >>

\* every entry the step reports (a table row, a line of the --output file,
\* a key that Keys prints) is an entry of `part`
ReportsOnly(part) ==
    /\ \A i \in 1..Len(TableRows(out')) :
          \E k \in DOMAIN part :
             TableRows(out')[i] \in {ListRow(<<k, part[k]>>),
                                     print_key_value(k, part[k])[1].rows[1]}
    /\ \A f \in DOMAIN files' :
          (f \notin DOMAIN files \/ files'[f] # files[f])
             => \A i \in 1..Len(files'[f]) :
                   \E k \in DOMAIN part : files'[f][i] = FileLines(<< <<k, part[k]>> >>)[1]
    /\ \A i \in 1..Len(out') :
          out'[i].text = "key" => \E k \in DOMAIN part : out'[i].key = from_utf8_lossy(k)

\* C27: commands act on the active partition only: a Use or a Delete leaves
\* the content of every partition other than the active one as it was (so
\* after any sequence of them only partitions that were active when a Delete
\* ran can differ), and Get, ContainsKey, Keys, Scan, Prefix, SearchKey and
\* SearchValue report only entries of the partition that is active when
\* they run.
C27_ActivePartitionOnly ==
    [][RanCommand
        => LET cli == last'.cli
               part == db[current_cf]
           IN /\ cli.variant \in {"Use", "Delete"}
                    => /\ DOMAIN db' = DOMAIN db
                       /\ \A c \in DOMAIN db : c # current_cf => db'[c] = db[c]
              /\ cli.variant = "Use" => db' = db
              /\ cli.variant \in {"Get", "ContainsKey", "Keys"} \cup MultiResult
                    => ReportsOnly(part)
              /\ cli.variant = "Get"
                    => IF cli.key \in DOMAIN part /\ ~last'.fault
                       THEN TableRows(out') = print_key_value(cli.key, part[cli.key])[1].rows
                       ELSE TableRows(out') = <<>>
              /\ cli.variant = "ContainsKey"
                    => ((cli.key \in DOMAIN part /\ ~last'.fault)
                          <=> \E i \in 1..Len(out') : out'[i].text = "Key exists")]_vars

C27_Witness ==
    /\ last.cli.variant = "Delete"
    /\ last.cli.key = <<"a">>
    /\ last.outcome = "Ok"
    /\ ~readonly
    /\ current_cf = Cf1
    /\ DOMAIN db[Cf1] = {}
    /\ DOMAIN db[DefaultCf] = {<<"a">>, <<"b">>}

\* the commands that only read
QueryVariants ==
    {"List", "Info", "Get", "Keys", "ContainsKey", "Scan", "Prefix", "SearchKey",
     "SearchValue"}

\* C28: the query commands are read-only: List, Info, Get, Keys,
\* ContainsKey, Scan, Prefix, SearchKey and SearchValue, without an output
\* file, leave the store contents, the active partition, the list of known
\* partitions and the files as they were; the active partition changes only
\* in a step that runs Use with a known name, and the store contents only in
\* a step that runs Put or Delete.
C28_QueriesAreReadOnly ==
    [][/\ (RanCommand /\ last'.cli.variant \in QueryVariants /\ Len(last'.cli.output) = 0)
          => /\ db' = db
             /\ current_cf' = current_cf
             /\ cf_list' = cf_list
             /\ files' = files
       /\ current_cf' # current_cf
          => /\ RanCommand
             /\ last'.cli.variant = "Use"
             /\ Known(cf_list, last'.cli.name)
             /\ current_cf' = last'.cli.name
             /\ last'.outcome = "Ok"
       /\ db' # db => (RanCommand /\ last'.cli.variant \in {"Put", "Delete"})]_vars

C28_Witness ==
    /\ last.cli.variant = "SearchValue"
    /\ last.cli.output = <<>>
    /\ last.outcome = "Ok"
    /\ current_cf = Cf1
    /\ db \in Stores
    /\ TableRows(out) = << <<<<"a">>, <<"2">>>> >>

\* C29 (as claimed): a search with the empty pattern is handled like any
\* other: the empty string occurs in every byte string, so SearchKey and
\* SearchValue with the empty pattern return every pair of the active
\* partition (as many of them as --limit / --all let through), as stored,
\* and the session does not abort: the command ends Ok and the loop goes on.
C29_EmptyPatternReturnsAll ==
    [][(/\ RanCommand
        /\ last'.cli.variant \in {"SearchKey", "SearchValue"}
        /\ Len(PatternOf(last'.cli)) = 0)
        => LET cli == last'.cli
               part == db[current_cf]
           IN /\ last'.outcome = "Ok"
              /\ pc' = "loop"
              /\ Emitted = Rendered(Shown(PairsOf(part, DOMAIN part), cli), cli)]_vars

====
